---- MODULE Spec2Model ----
(***************************************************************************)
(* A model of the beachbums seating planner:                               *)
(*   persons.py       Person.add_pair / add_persons / pair-count queries    *)
(*   tables.py        Table (capacity, people, add_person)                  *)
(*   seating_plan.py  create_seating_plan and _add_person_to_table_generic  *)
(*                                                                         *)
(* Persons are identified by their name (the key of the `persons` dict;    *)
(* Person.__eq__ compares the name-derived _unique_name), tables by their  *)
(* position in the `tables` dict.                                          *)
(***************************************************************************)
EXTENDS Integers, Sequences, FiniteSets, TLC

\* ------------------------------------------------------------------ bounds
NumPersons   == 4   \* persons in the roster
MaxTables    == 2   \* tables in the layout
MaxCap       == 3   \* largest table capacity
MaxPrefEdges == 1   \* PREFERRED entries in the whole roster
MaxHist      == 1   \* add_pair calls of the pairing history before seating
MaxCount     == 2   \* largest pairing count reached by the pairing machine
MaxOthers    == 2   \* longest list handed to add_persons
MaxHistNames == 3   \* names that occur in the seating-plan files
MaxGroupLen  == 3   \* rows of one table in a seating-plan file
MaxPlans     == 2   \* seating-plan files
MaxRecords   == 2   \* tables in all the seating-plan files
MaxGroupPersons == 5 \* persons in the roster handed to the grouping
MaxSkill     == 2   \* largest background value
MaxGroupSize == 3   \* largest group_size asked for
MaxGroupHist == 2   \* add_pair calls of the pairing history before grouping
MaxRows      == 2   \* rows of the layout file
MaxHash      == 1   \* largest hash() of a string
MaxSeniorCap == 5   \* largest table capacity of the rosters without history
MaxReadKeys  == 1   \* keys that reads add to the pairing tables

Names == 1..NumPersons

\* the GROUP column; "NONE" stands for a missing GROUP (Person.group = None)
\* and for any value that is none of the four the seating asks for
RoleSeq == <<"TA", "FACULTY", "STUDENT", "GUEST", "NONE">>

VARIABLES
    group,            \* Person.group, by name
    exclude,          \* Person.exclude, by name
    preferred,        \* Person.preferred, by name
    pair_counts,      \* Person.pair_counts values, by name (0 = default)
    pair_keys,        \* the keys present in Person.pair_counts, by name
    capacity,         \* Table.capacity, by table
    people,           \* Table.people, by table
    ta_persons, student_persons, faculty_persons, guest_persons,
    extra_tas, persons_w_pref_or_as_pref,
    unseated_people,
    sorted_tables,
    people_table_placement,
    i,                \* position of the zip loop of step 13
    qpos,             \* position in the queue of step 15
    pc,               \* position in create_seating_plan
    err,              \* the exception that ended the run
    seating_plan,     \* the returned seating (by table), <<>> before return
    last_call,        \* the latest top-level pairing call and its call count
    persons,          \* the roster dict handed to process_previous_pairings
    seating_plans,    \* the history read so far: per plan, the name list of each table
    ret,              \* what the latest Table call returned or raised
    backgrounds,      \* Person.backgrounds[background], by name (NoSkill = no value)
    group_size, match,
    people_with_background,
    groups,
    grouping_plan,    \* the returned grouping, <<>> before return
    layout,           \* the rows handed to define_table_layout
    layout_tables,    \* the dict define_table_layout builds
    person1, person2, \* two Person objects of one process
    str_hash          \* hash() of the strings of this process

vars == <<group, exclude, preferred, pair_counts, pair_keys, capacity, people,
          ta_persons, student_persons, faculty_persons, guest_persons,
          extra_tas, persons_w_pref_or_as_pref, unseated_people,
          sorted_tables, people_table_placement, i, qpos, pc, err,
          seating_plan, last_call, persons, seating_plans, ret, backgrounds,
          group_size, match, people_with_background, groups, grouping_plan,
          layout, layout_tables, person1, person2, str_hash>>

histVars   == <<persons, seating_plans>>
groupVars  == <<backgrounds, group_size, match, people_with_background, groups,
                grouping_plan>>
layoutVars == <<layout, layout_tables>>
hashVars   == <<person1, person2, str_hash>>
\* the state outside create_seating_plan and the pairing tables
auxVars    == <<histVars, ret, groupVars, layoutVars, hashVars>>

personVars == <<group, exclude, preferred>>
pairVars   == <<pair_counts, pair_keys>>
planVars   == <<ta_persons, student_persons, faculty_persons, guest_persons,
                extra_tas, persons_w_pref_or_as_pref, unseated_people,
                sorted_tables, people_table_placement, i, qpos, err,
                seating_plan>>

\* ----------------------------------------------------------------- helpers
Range(s) == {s[k] : k \in 1..Len(s)}

Min(a, b) == IF a < b THEN a ELSE b

\* all listings of a finite set without repetition
Orderings(S) ==
    {s \in [1..Cardinality(S) -> S] : \A a, b \in 1..Cardinality(S) : a # b => s[a] # s[b]}

RECURSIVE SumSeq(_)
SumSeq(s) == IF s = <<>> THEN 0 ELSE Head(s) + SumSeq(Tail(s))

\* dict.pop(name) on an insertion-ordered dict of persons
Without(s, n) == SelectSeq(s, LAMBDA x : x # n)

\* keys of a dict comprehension over a list: first occurrences, in order
RECURSIVE Dedup(_)
Dedup(s) ==
    IF s = <<>> THEN <<>>
    ELSE LET d == Dedup(SubSeq(s, 1, Len(s) - 1))
         IN  IF s[Len(s)] \in Range(d) THEN d ELSE Append(d, s[Len(s)])

\* ------------------------------------------------------ persons.py: Person
PersonEq(a, b) == a = b

is_faculty(n) == group[n] = "FACULTY"

\* an add_pair that forgets the reverse pair
add_pair_one_way(st, self, other_person, reciprocate) ==
    IF PersonEq(self, other_person)
    THEN [st EXCEPT !.calls = @ + 1]
    ELSE [st EXCEPT !.counts[self][other_person] = @ + 1,
                    !.keys[self] = @ \cup {other_person},
                    !.calls = @ + 1]

\* an add_pair without the test of line 183
add_pair_with_self(st, self, other_person, reciprocate) ==
    LET st1 == [st EXCEPT !.counts[self][other_person] = @ + 1,
                          !.keys[self] = @ \cup {other_person},
                          !.calls = @ + 1]
    IN  IF reciprocate
        THEN [st1 EXCEPT !.counts[other_person][self] = @ + 1,
                         !.keys[other_person] = @ \cup {self},
                         !.calls = @ + 1]
        ELSE st1

\* Person.add_pair on the pairing tables st = [counts, keys, calls]
RECURSIVE add_pair(_, _, _, _)
add_pair(st, self, other_person, reciprocate) ==
    IF PersonEq(self, other_person)
    THEN [st EXCEPT !.calls = @ + 1]
    ELSE LET st1 == [st EXCEPT !.counts[self][other_person] = @ + 1,
                               !.keys[self] = @ \cup {other_person},
                               !.calls = @ + 1]
         IN  IF reciprocate THEN add_pair(st1, other_person, self, FALSE) ELSE st1

\* Person.add_persons
RECURSIVE add_persons(_, _, _)
add_persons(st, self, other_persons) ==
    IF other_persons = <<>> THEN st
    ELSE add_persons(add_pair(st, self, Head(other_persons), TRUE), self, Tail(other_persons))

\* Person.get_pair_count_for_people: the parallel lists, and the keys the
\* defaultdict reads leave behind in self.pair_counts
get_pair_count_for_people(counts, self, other_people) ==
    LET options == Dedup(other_people)
    IN  [options |-> options,
         counts  |-> [k \in 1..Len(options) |-> counts[self][options[k]]],
         touched |-> Range(other_people)]

\* Person.get_pair_count_for_person: self.pair_counts[other_person] on a
\* defaultdict(int), which also leaves the key behind
get_pair_count_for_person(counts, self, other_person) ==
    [value   |-> counts[self][other_person],
     touched |-> {other_person}]

\* Person.get_pairs: the keys of self.pair_counts (their order left out)
get_pairs(keys, self) == keys[self]

\* Person.get_pair_count_for_everyone_except: the count of every key of
\* self.pair_counts that is not excepted
get_pair_count_for_everyone_except(counts, keys, self, except_other_people) ==
    [other_person \in get_pairs(keys, self) \ except_other_people |->
        counts[self][other_person]]

\* ------------------------------------------------------- tables.py: Table
seated(ppl, t)    == Len(ppl[t])
has_space(ppl, t) == seated(ppl, t) < capacity[t]
is_full(ppl, t)   == ~has_space(ppl, t)

\* ------------------------------------------------ seating_plan.py helpers
\* a seat operation that forgets to record the placement
add_person_to_table_no_record(st, person, table_name) ==
    IF has_space(st.people, table_name) /\ st.placement[person] = -1
    THEN [people    |-> [st.people EXCEPT ![table_name] = Append(@, person)],
          placement |-> st.placement,
          added     |-> TRUE]
    ELSE [people |-> st.people, placement |-> st.placement, added |-> FALSE]

\* _add_person_to_table_generic on st = [people, placement]
add_person_to_table(st, person, table_name) ==
    IF has_space(st.people, table_name) /\ st.placement[person] = -1
    THEN [people    |-> [st.people EXCEPT ![table_name] = Append(@, person)],
          placement |-> [st.placement EXCEPT ![person] = table_name],
          added     |-> TRUE]
    ELSE [people |-> st.people, placement |-> st.placement, added |-> FALSE]

\* people = people[~people["NAME"].isin(excluded_names)]
ActiveRows == {n \in Names : ~exclude[n]}

\* _randomize_group: any shuffle of the rows of the group, then a stable sort
\* by descending number of preferences
randomize_group(g) ==
    LET rows == {n \in ActiveRows : group[n] = g}
    IN  {s \in Orderings(rows) :
            \A a, b \in 1..Len(s) :
                a < b => Cardinality(preferred[s[a]]) >= Cardinality(preferred[s[b]])}

\* a sort with the largest table first
sort_tables_desc(cap) ==
    CHOOSE s \in Orderings(DOMAIN cap) :
        \A a, b \in 1..Len(s) :
            a < b => \/ cap[s[a]] > cap[s[b]]
                     \/ (cap[s[a]] = cap[s[b]] /\ s[a] < s[b])

\* dict(sorted(tables.items(), key=capacity)): stable, smallest first
sort_tables(cap) ==
    CHOOSE s \in Orderings(DOMAIN cap) :
        \A a, b \in 1..Len(s) :
            a < b => \/ cap[s[a]] < cap[s[b]]
                     \/ (cap[s[a]] = cap[s[b]] /\ s[a] < s[b])

total_seats == SumSeq([k \in 1..Len(sorted_tables) |-> capacity[sorted_tables[k]]])

\* a zip that never advances its first operand
zip_first_table(tables, tas) ==
    [k \in 1..Min(Len(tables), Len(tas)) |-> <<tables[1], tas[k]>>]

\* zip(sorted_tables.items(), ta_persons.items()) of line 173
zip_tables_tas(tables, tas) ==
    [k \in 1..Min(Len(tables), Len(tas)) |-> <<tables[k], tas[k]>>]

\* 14.1: every preference is made mutual (over all persons, excluded too)
mutual_preferred(pref) ==
    [n \in Names |-> pref[n] \cup {p \in Names : n \in pref[p]}]

\* the test of lines 216-220; its third operand asks whether a set is an
\* element of a set of names, which is never the case
preferred_match(pref, person, option) ==
    \/ person \in pref[option]
    \/ option \in pref[person]

\* a penalty that only multiplies
penalized_times_only(person, option, c) ==
    IF is_faculty(person) /\ is_faculty(option) THEN c * 100 ELSE c

\* lines 230-236: the count of a faculty occupant as seen by a faculty person
penalized(person, option, c) ==
    IF is_faculty(person) /\ is_faculty(option)
    THEN (IF c = 0 THEN 100 ELSE c * 100)
    ELSE c

\* table_weight[table_name] as a fraction <<numerator, denominator>>:
\* -1 on a preferred match, else seated/capacity + sum(counts)/len(options).
\* Within the bounds of this model the float comparison of two such weights
\* agrees with the comparison of the exact fractions.
table_weight(person, t) ==
    LET r == get_pair_count_for_people(pair_counts, person, people[t])
        n == Len(r.options)
        counts == [k \in 1..n |-> penalized(person, r.options[k], r.counts[k])]
    IN  IF \E k \in 1..n : preferred_match(preferred, person, r.options[k])
        THEN <<-1, 1>>
        ELSE <<seated(people, t) * n + SumSeq(counts) * capacity[t], capacity[t] * n>>

WeightLess(v, w) == v[1] * w[2] < w[1] * v[2]

\* the tables the loop of line 210 does not skip, in its order
open_tables == SelectSeq(sorted_tables, LAMBDA t : ~is_full(people, t))

\* sum(counts) / len(options) with no occupant and no preferred match
divides_by_zero(t) == Len(Dedup(people[t])) = 0

\* min(table_weight, key=table_weight.get): the first key of least weight
min_table(person) ==
    LET ts == open_tables
        k  == CHOOSE a \in 1..Len(ts) :
                /\ \A b \in 1..Len(ts) : ~WeightLess(table_weight(person, ts[b]), table_weight(person, ts[a]))
                /\ \A b \in 1..(a - 1) : WeightLess(table_weight(person, ts[a]), table_weight(person, ts[b]))
    IN  ts[k]

\* a queue with the extra TAs ahead of the students
queue_tas_before_students ==
    persons_w_pref_or_as_pref \o faculty_persons \o guest_persons
        \o extra_tas \o student_persons

\* the queue of step 15, in processing order
Queue == persons_w_pref_or_as_pref \o faculty_persons \o guest_persons
            \o student_persons \o extra_tas

\* lines 269-281: round-robin over the persons still unseated, starting at
\* table index k of table_names; ok = FALSE is "tried all tables"
RECURSIVE try_tables(_, _, _, _)
try_tables(st, person, k, table_start) ==
    LET r == add_person_to_table(st, person, sorted_tables[k])
        nxt == (k % Len(sorted_tables)) + 1
    IN  IF r.added THEN [people |-> r.people, placement |-> r.placement, k |-> nxt, ok |-> TRUE]
        ELSE IF nxt = table_start
             THEN [people |-> st.people, placement |-> st.placement, k |-> nxt, ok |-> FALSE]
             ELSE try_tables(st, person, nxt, table_start)

RECURSIVE round_robin(_, _, _)
round_robin(st, rest, k) ==
    IF rest = <<>> THEN [people |-> st.people, placement |-> st.placement, ok |-> TRUE]
    ELSE LET r == try_tables(st, Head(rest), k, k)
         IN  IF r.ok THEN round_robin(r, Tail(rest), r.k)
             ELSE [people |-> r.people, placement |-> r.placement, ok |-> FALSE]

\* lines 285-297
faculty_table_count(t) ==
    Cardinality({k \in 1..Len(people[t]) : group[people[t][k]] = "FACULTY"})

\* a threshold that is off by one
multi_faculty_above_two == {t \in Range(sorted_tables) : faculty_table_count(t) > 2}

multi_faculty_table_count == {t \in Range(sorted_tables) : faculty_table_count(t) > 1}
zero_faculty_table_count  == {t \in Range(sorted_tables) : faculty_table_count(t) = 0}

faculty_check_fails ==
    Cardinality(multi_faculty_table_count) > 0 /\ Cardinality(zero_faculty_table_count) > 0

\* ------------------------------------------------- the inputs of one run
\* Names are interchangeable (every use of the roster order is shuffled), so
\* the roster is listed with the excluded rows first, then by role.
RosterExcludes ==
    {x \in [Names -> BOOLEAN] : x[NumPersons] = FALSE /\ \A a, b \in Names : (a < b /\ x[b]) => x[a]}

RosterGroups(x) ==
    {g \in [Names -> 1..Len(RoleSeq)] :
        /\ \A a, b \in Names : a < b => g[a] <= g[b]
        /\ \A a \in Names : x[a] => g[a] = 1}

PrefEdges == {e \in Names \X Names : e[1] # e[2]}

RECURSIVE EdgeSets(_)
EdgeSets(k) ==
    IF k = 0 THEN {{}}
    ELSE LET prev == EdgeSets(k - 1)
         IN  prev \cup {E \cup {e} : E \in prev, e \in PrefEdges}

NoPairs == [counts |-> [n \in Names |-> [m \in Names |-> 0]],
            keys   |-> [n \in Names |-> {}],
            calls  |-> 0]

\* the pairing tables that at most k add_pair calls leave behind
RECURSIVE Histories(_)
Histories(k) ==
    IF k = 0 THEN {NoPairs}
    ELSE LET prev == Histories(k - 1)
         IN  prev \cup {[add_pair(h, e[1], e[2], TRUE) EXCEPT !.calls = 0] :
                            h \in prev, e \in {d \in PrefEdges : d[1] < d[2]}}

Layouts == UNION {[1..nt -> 0..MaxCap] : nt \in 1..MaxTables}

NoCall == [op |-> "none", self |-> 0, others |-> <<>>, calls |-> 0]

\* nothing read, called, grouped, laid out or hashed yet
NoRet == [op |-> "none", person |-> 0, value |-> 0, raised |-> FALSE]

HistIdle   == persons = <<>> /\ seating_plans = <<>>
GroupIdle  ==
    /\ backgrounds = <<>> /\ group_size = 0 /\ match = TRUE
    /\ people_with_background = <<>> /\ groups = <<>> /\ grouping_plan = <<>>
LayoutIdle == layout = <<>> /\ layout_tables = <<>>
HashIdle   == person1 = <<>> /\ person2 = <<>> /\ str_hash = <<>>
AuxIdle    == HistIdle /\ ret = NoRet /\ GroupIdle /\ LayoutIdle /\ HashIdle

\* --------------------------------------------- create_seating_plan: Init
Init ==
    /\ exclude \in RosterExcludes
    /\ \E g \in RosterGroups(exclude) : group = [n \in Names |-> RoleSeq[g[n]]]
    /\ \E E \in EdgeSets(MaxPrefEdges) :
            preferred = [n \in Names |-> {m \in Names : <<n, m>> \in E}]
    /\ \E h \in Histories(MaxHist) : pair_counts = h.counts /\ pair_keys = h.keys
    /\ capacity \in Layouts
    /\ people = [t \in DOMAIN capacity |-> <<>>]
    /\ ta_persons = <<>> /\ student_persons = <<>>
    /\ faculty_persons = <<>> /\ guest_persons = <<>>
    /\ extra_tas = <<>> /\ persons_w_pref_or_as_pref = <<>>
    /\ unseated_people = <<>>
    /\ sorted_tables = <<>>
    /\ people_table_placement = <<>>
    /\ i = 0 /\ qpos = 0
    /\ pc = "start"
    /\ err = "none"
    /\ seating_plan = <<>>
    /\ last_call = NoCall
    /\ AuxIdle

\* lines 104-151: filter the excluded rows, shuffle the four groups, sort the
\* tables, collect the unseated people and their placement record
Randomize ==
    /\ pc = "start"
    /\ \E ta \in randomize_group("TA"), st \in randomize_group("STUDENT"),
          fa \in randomize_group("FACULTY"), gu \in randomize_group("GUEST") :
            /\ ta_persons' = ta
            /\ student_persons' = st
            /\ faculty_persons' = fa
            /\ guest_persons' = gu
            /\ unseated_people' = ta \o fa \o st \o gu
            /\ people_table_placement' = [n \in Range(ta \o fa \o st \o gu) |-> -1]
    /\ sorted_tables' = sort_tables(capacity)
    /\ pc' = "capacity"
    /\ UNCHANGED <<personVars, pairVars, capacity, people, extra_tas,
                   persons_w_pref_or_as_pref, i, qpos, err, seating_plan, last_call>>
    /\ UNCHANGED auxVars

\* lines 153-158: ValueError "Not enough seats for all people!"
NotEnoughSeats ==
    /\ pc = "capacity"
    /\ total_seats < Len(unseated_people)
    /\ pc' = "error"
    /\ err' = "not_enough_seats"
    /\ UNCHANGED <<personVars, pairVars, capacity, people, ta_persons,
                   student_persons, faculty_persons, guest_persons, extra_tas,
                   persons_w_pref_or_as_pref, unseated_people, sorted_tables,
                   people_table_placement, i, qpos, seating_plan, last_call>>
    /\ UNCHANGED auxVars

\* lines 160-170: the TAs beyond the number of tables leave ta_persons
PopExtraTAs ==
    /\ pc = "capacity"
    /\ ~(total_seats < Len(unseated_people))
    /\ LET num_sorted_tables == Len(sorted_tables)
       IN  IF Len(ta_persons) > num_sorted_tables
           THEN /\ extra_tas' = SubSeq(ta_persons, num_sorted_tables + 1, Len(ta_persons))
                /\ ta_persons' = SubSeq(ta_persons, 1, num_sorted_tables)
           ELSE /\ extra_tas' = <<>>
                /\ ta_persons' = ta_persons
    /\ i' = 1
    /\ pc' = "seat_tas"
    /\ UNCHANGED <<personVars, pairVars, capacity, people, student_persons,
                   faculty_persons, guest_persons, persons_w_pref_or_as_pref,
                   unseated_people, sorted_tables, people_table_placement,
                   qpos, err, seating_plan, last_call>>
    /\ UNCHANGED auxVars

\* lines 173-179: one round of the zip loop
SeatTA ==
    /\ pc = "seat_tas"
    /\ i <= Len(zip_tables_tas(sorted_tables, ta_persons))
    /\ LET table_name == zip_tables_tas(sorted_tables, ta_persons)[i][1]
           ta_name    == zip_tables_tas(sorted_tables, ta_persons)[i][2]
           r == add_person_to_table([people |-> people, placement |-> people_table_placement],
                                    ta_name, table_name)
       IN  /\ people' = r.people
           /\ people_table_placement' = r.placement
           /\ unseated_people' = Without(unseated_people, ta_name)
           /\ IF r.added
              THEN /\ i' = i + 1 /\ UNCHANGED <<pc, err>>
              ELSE /\ pc' = "error" /\ err' = "could_not_add" /\ UNCHANGED i
    /\ UNCHANGED <<personVars, pairVars, capacity, ta_persons, student_persons,
                   faculty_persons, guest_persons, extra_tas,
                   persons_w_pref_or_as_pref, sorted_tables, qpos,
                   seating_plan, last_call>>
    /\ UNCHANGED auxVars

\* lines 181-197: mutual preferences, then the people with preferences leave
\* their group for the dict that is seated first
MutualPreferences ==
    /\ pc = "seat_tas"
    /\ i > Len(zip_tables_tas(sorted_tables, ta_persons))
    /\ preferred' = mutual_preferred(preferred)
    /\ LET has_pref(n) == preferred'[n] # {}
       IN  /\ persons_w_pref_or_as_pref' = SelectSeq(unseated_people, has_pref)
           /\ faculty_persons' = SelectSeq(faculty_persons, LAMBDA n : ~has_pref(n))
           /\ guest_persons'   = SelectSeq(guest_persons, LAMBDA n : ~has_pref(n))
           /\ student_persons' = SelectSeq(student_persons, LAMBDA n : ~has_pref(n))
           /\ extra_tas'       = SelectSeq(extra_tas, LAMBDA n : ~has_pref(n))
    /\ qpos' = 1
    /\ pc' = "queue"
    /\ UNCHANGED <<group, exclude, pairVars, capacity, people, ta_persons,
                   unseated_people, sorted_tables, people_table_placement, i,
                   err, seating_plan, last_call>>
    /\ UNCHANGED auxVars

\* lines 208-257: one person of the queue
SeatNext ==
    /\ pc = "queue"
    /\ qpos <= Len(Queue)
    /\ LET person == Queue[qpos]
           ts     == open_tables
           zero   == {k \in 1..Len(ts) : divides_by_zero(ts[k])}
           \* the tables whose occupants were looked up before the loop ended
           last   == IF zero = {} THEN Len(ts)
                     ELSE CHOOSE k \in zero : \A m \in zero : k <= m
           read   == UNION {Range(people[ts[k]]) : k \in 1..last}
       IN  /\ pair_keys' = [pair_keys EXCEPT ![person] = @ \cup read]
           /\ IF zero # {}
              THEN /\ pc' = "error" /\ err' = "zero_division"
                   /\ UNCHANGED <<people, people_table_placement, qpos>>
              ELSE IF Len(ts) = 0
              THEN /\ pc' = "error" /\ err' = "min_of_empty"
                   /\ UNCHANGED <<people, people_table_placement, qpos>>
              ELSE LET min_table_name == min_table(person)
                       r == add_person_to_table(
                                [people |-> people, placement |-> people_table_placement],
                                person, min_table_name)
                   IN  /\ people' = r.people
                       /\ people_table_placement' = r.placement
                       /\ IF r.added
                          THEN /\ qpos' = qpos + 1 /\ UNCHANGED <<pc, err>>
                          ELSE /\ pc' = "error"
                               /\ err' = IF is_full(people, min_table_name) THEN "table_full"
                                         ELSE IF people_table_placement[person] # -1
                                              THEN "already_seated"
                                              ELSE "could_not_add_to_any"
                               /\ UNCHANGED qpos
    /\ UNCHANGED <<personVars, pair_counts, capacity, ta_persons, student_persons,
                   faculty_persons, guest_persons, extra_tas,
                   persons_w_pref_or_as_pref, unseated_people, sorted_tables, i,
                   seating_plan, last_call>>
    /\ UNCHANGED auxVars

\* lines 259-281: whoever is still unseated ends the run; the round-robin
\* loop runs over what is left
FinishQueue ==
    /\ pc = "queue"
    /\ qpos > Len(Queue)
    /\ LET left == SelectSeq(unseated_people, LAMBDA n : people_table_placement[n] = -1)
       IN  /\ unseated_people' = left
           /\ IF left # <<>>
              THEN /\ pc' = "error" /\ err' = "could_not_seat_everyone"
                   /\ UNCHANGED <<people, people_table_placement>>
              ELSE LET r == round_robin([people |-> people, placement |-> people_table_placement],
                                        left, 1)
                   IN  /\ people' = r.people
                       /\ people_table_placement' = r.placement
                       /\ IF r.ok THEN pc' = "checks" /\ UNCHANGED err
                          ELSE pc' = "error" /\ err' = "tried_all_tables"
    /\ UNCHANGED <<personVars, pairVars, capacity, ta_persons, student_persons,
                   faculty_persons, guest_persons, extra_tas,
                   persons_w_pref_or_as_pref, sorted_tables, i, qpos,
                   seating_plan, last_call>>
    /\ UNCHANGED auxVars

\* lines 283-312: ValueError on tables with several faculty next to tables
\* with none
FacultyCheckFails ==
    /\ pc = "checks"
    /\ faculty_check_fails
    /\ pc' = "error"
    /\ err' = "faculty_imbalance"
    /\ UNCHANGED <<personVars, pairVars, capacity, people, ta_persons,
                   student_persons, faculty_persons, guest_persons, extra_tas,
                   persons_w_pref_or_as_pref, unseated_people, sorted_tables,
                   people_table_placement, i, qpos, seating_plan, last_call>>
    /\ UNCHANGED auxVars

\* lines 314-340: the seating is returned, one list of names per table
Return ==
    /\ pc = "checks"
    /\ ~faculty_check_fails
    /\ seating_plan' = people
    /\ pc' = "done"
    /\ UNCHANGED <<personVars, pairVars, capacity, people, ta_persons,
                   student_persons, faculty_persons, guest_persons, extra_tas,
                   persons_w_pref_or_as_pref, unseated_people, sorted_tables,
                   people_table_placement, i, qpos, err, last_call>>
    /\ UNCHANGED auxVars

Next ==
    \/ Randomize
    \/ NotEnoughSeats
    \/ PopExtraTAs
    \/ SeatTA
    \/ MutualPreferences
    \/ SeatNext
    \/ FinishQueue
    \/ FacultyCheckFails
    \/ Return

Spec == Init /\ [][Next]_vars

\* ------------------------- create_seating_plan on rosters without history
\* layouts with tables of up to MaxSeniorCap seats
SeniorLayouts == UNION {[1..nt -> 1..MaxSeniorCap] : nt \in 1..MaxTables}

\* rosters in which nobody is excluded and everybody has a seating role
SeniorGroups ==
    {g \in [Names -> 1..(Len(RoleSeq) - 1)] : \A a, b \in Names : a < b => g[a] <= g[b]}

\* the state before create_seating_plan: no pairing history
SeniorInit ==
    /\ exclude = [n \in Names |-> FALSE]
    /\ \E g \in SeniorGroups : group = [n \in Names |-> RoleSeq[g[n]]]
    /\ \E E \in EdgeSets(MaxPrefEdges) :
            preferred = [n \in Names |-> {m \in Names : <<n, m>> \in E}]
    /\ pair_counts = NoPairs.counts
    /\ pair_keys = NoPairs.keys
    /\ capacity \in SeniorLayouts
    /\ people = [t \in DOMAIN capacity |-> <<>>]
    /\ ta_persons = <<>> /\ student_persons = <<>>
    /\ faculty_persons = <<>> /\ guest_persons = <<>>
    /\ extra_tas = <<>> /\ persons_w_pref_or_as_pref = <<>>
    /\ unseated_people = <<>>
    /\ sorted_tables = <<>>
    /\ people_table_placement = <<>>
    /\ i = 0 /\ qpos = 0
    /\ pc = "start"
    /\ err = "none"
    /\ seating_plan = <<>>
    /\ last_call = NoCall
    /\ AuxIdle

SeniorSpec == SeniorInit /\ [][Next]_vars

\* ------------------------------------------------ the pairing operations
\* Persons built from bare records (no GROUP, no PREFERRED), no tables, no
\* seating run
PairInit ==
    /\ group = [n \in Names |-> "NONE"]
    /\ exclude = [n \in Names |-> FALSE]
    /\ preferred = [n \in Names |-> {}]
    /\ pair_counts = NoPairs.counts
    /\ pair_keys = NoPairs.keys
    /\ capacity = <<>>
    /\ people = <<>>
    /\ ta_persons = <<>> /\ student_persons = <<>>
    /\ faculty_persons = <<>> /\ guest_persons = <<>>
    /\ extra_tas = <<>> /\ persons_w_pref_or_as_pref = <<>>
    /\ unseated_people = <<>>
    /\ sorted_tables = <<>>
    /\ people_table_placement = <<>>
    /\ i = 0 /\ qpos = 0
    /\ pc = "pairs"
    /\ err = "none"
    /\ seating_plan = <<>>
    /\ last_call = NoCall
    /\ AuxIdle

PairTables == [counts |-> pair_counts, keys |-> pair_keys, calls |-> 0]

WithinMaxCount(st) == \A n, m \in Names : st.counts[n][m] <= MaxCount

OtherLists == UNION {[1..k -> Names] : k \in 1..MaxOthers}

\* self.add_pair(other_person), reciprocate left at its default
AddPair(self, other_person) ==
    /\ pc = "pairs"
    /\ LET st == add_pair(PairTables, self, other_person, TRUE)
       IN  /\ WithinMaxCount(st)
           /\ pair_counts' = st.counts
           /\ pair_keys' = st.keys
           /\ last_call' = [op |-> "add_pair", self |-> self,
                            others |-> <<other_person>>, calls |-> st.calls]
    /\ UNCHANGED <<personVars, capacity, people, planVars, pc>>
    /\ UNCHANGED auxVars

\* self.add_persons(other_persons)
AddPersons(self, other_persons) ==
    /\ pc = "pairs"
    /\ LET st == add_persons(PairTables, self, other_persons)
       IN  /\ WithinMaxCount(st)
           /\ pair_counts' = st.counts
           /\ pair_keys' = st.keys
           /\ last_call' = [op |-> "add_persons", self |-> self,
                            others |-> other_persons, calls |-> st.calls]
    /\ UNCHANGED <<personVars, capacity, people, planVars, pc>>
    /\ UNCHANGED auxVars

PairNext ==
    \/ \E a, b \in Names : AddPair(a, b)
    \/ \E a \in Names, bs \in OtherLists : AddPersons(a, bs)

PairSpec == PairInit /\ [][PairNext]_vars

\* ------------------------------------------ persons.py: the pairing queries
\* The pairing tables start as what at most MaxHist add_pair calls leave
\* behind; the four read methods are then called in any order.
QueryInit ==
    /\ group = [n \in Names |-> "NONE"]
    /\ exclude = [n \in Names |-> FALSE]
    /\ preferred = [n \in Names |-> {}]
    /\ \E h \in Histories(MaxHist) : pair_counts = h.counts /\ pair_keys = h.keys
    /\ capacity = <<>>
    /\ people = <<>>
    /\ ta_persons = <<>> /\ student_persons = <<>>
    /\ faculty_persons = <<>> /\ guest_persons = <<>>
    /\ extra_tas = <<>> /\ persons_w_pref_or_as_pref = <<>>
    /\ unseated_people = <<>>
    /\ sorted_tables = <<>>
    /\ people_table_placement = <<>>
    /\ i = 0 /\ qpos = 0
    /\ pc = "query"
    /\ err = "none"
    /\ seating_plan = <<>>
    /\ last_call = NoCall
    /\ AuxIdle

\* the keys of pair_counts that no add_pair call put there
ReadKeys(keys) == {e \in Names \X Names : e[2] \in keys[e[1]] /\ pair_counts[e[1]][e[2]] = 0}

\* self.get_pair_count_for_person(other_person)
GetPairCountForPerson(self, other_person) ==
    /\ pc = "query"
    /\ LET r == get_pair_count_for_person(pair_counts, self, other_person)
       IN  /\ pair_keys' = [pair_keys EXCEPT ![self] = @ \cup r.touched]
           /\ ret' = [op |-> "get_pair_count_for_person", person |-> self,
                      value |-> r.value, raised |-> FALSE]
    /\ Cardinality(ReadKeys(pair_keys')) <= MaxReadKeys
    /\ last_call' = [op |-> "get_pair_count_for_person", self |-> self,
                     others |-> <<other_person>>, calls |-> 1]
    /\ UNCHANGED <<personVars, pair_counts, capacity, people, planVars, pc,
                   histVars, groupVars, layoutVars, hashVars>>

\* self.get_pair_count_for_people(other_people)
GetPairCountForPeople(self, other_people) ==
    /\ pc = "query"
    /\ LET r == get_pair_count_for_people(pair_counts, self, other_people)
       IN  /\ pair_keys' = [pair_keys EXCEPT ![self] = @ \cup r.touched]
           /\ ret' = [op |-> "get_pair_count_for_people", person |-> self,
                      value |-> <<r.options, r.counts>>, raised |-> FALSE]
    /\ Cardinality(ReadKeys(pair_keys')) <= MaxReadKeys
    /\ last_call' = [op |-> "get_pair_count_for_people", self |-> self,
                     others |-> other_people, calls |-> Len(other_people)]
    /\ UNCHANGED <<personVars, pair_counts, capacity, people, planVars, pc,
                   histVars, groupVars, layoutVars, hashVars>>

\* self.get_pairs()
GetPairs(self) ==
    /\ pc = "query"
    /\ ret' = [op |-> "get_pairs", person |-> self,
               value |-> get_pairs(pair_keys, self), raised |-> FALSE]
    /\ last_call' = [op |-> "get_pairs", self |-> self, others |-> <<>>, calls |-> 0]
    /\ UNCHANGED <<personVars, pairVars, capacity, people, planVars, pc,
                   histVars, groupVars, layoutVars, hashVars>>

\* self.get_pair_count_for_everyone_except(except_other_people)
GetPairCountForEveryoneExcept(self, except_other_people) ==
    /\ pc = "query"
    /\ ret' = [op |-> "get_pair_count_for_everyone_except", person |-> self,
               value |-> get_pair_count_for_everyone_except(
                             pair_counts, pair_keys, self, except_other_people),
               raised |-> FALSE]
    /\ last_call' = [op |-> "get_pair_count_for_everyone_except", self |-> self,
                     others |-> except_other_people,
                     calls |-> Cardinality(get_pairs(pair_keys, self) \ except_other_people)]
    /\ UNCHANGED <<personVars, pairVars, capacity, people, planVars, pc,
                   histVars, groupVars, layoutVars, hashVars>>

\* the sets of at most MaxOthers persons to leave out
ExceptSets == {S \in SUBSET Names : Cardinality(S) <= MaxOthers}

QueryNext ==
    \/ \E a, b \in Names : GetPairCountForPerson(a, b)
    \/ \E a \in Names, bs \in OtherLists : GetPairCountForPeople(a, bs)
    \/ \E a \in Names : GetPairs(a)
    \/ \E a \in Names, bs \in ExceptSets : GetPairCountForEveryoneExcept(a, bs)

QuerySpec == QueryInit /\ [][QueryNext]_vars

\* ----------------------------------------------- process_previous_pairings
\* Person(record): the fields __init__ derives from a record
Person(name, grp, bg, pref, excl, props) ==
    [name |-> name, group |-> grp, backgrounds |-> bg, preferred |-> pref,
     exclude |-> excl, props |-> props]

\* Person({"NAME": name}, name_col="NAME") of line 40
minimal_person(name) == Person(name, "NONE", <<>>, {}, FALSE, <<>>)

\* a lookup loop that forgets to add the unknown name
read_table_no_insert(ps, names) ==
    [persons |-> ps,
     list    |-> SelectSeq(names, LAMBDA n : n \in DOMAIN ps),
     raised  |-> \E k \in 1..Len(names) : names[k] \notin DOMAIN ps]

\* lines 34-41: table_persons_list, and the roster with the unknown names
\* added; raised is the KeyError of the lookup of line 41
RECURSIVE read_table(_, _)
read_table(ps, names) ==
    IF names = <<>> THEN [persons |-> ps, list |-> <<>>, raised |-> FALSE]
    ELSE LET name == Head(names)
             ps1  == IF name \notin DOMAIN ps
                     THEN [n \in DOMAIN ps \cup {name} |->
                              IF n = name THEN minimal_person(name) ELSE ps[n]]
                     ELSE ps
             r    == read_table(ps1, Tail(names))
         IN  [persons |-> r.persons,
              list    |-> <<name>> \o r.list,
              raised  |-> name \notin DOMAIN ps1 \/ r.raised]

\* a pairing that stops after the first pop
pair_table_once(st, table_persons_list) ==
    IF Len(table_persons_list) = 0 THEN st
    ELSE add_persons(st, table_persons_list[Len(table_persons_list)],
                     SubSeq(table_persons_list, 1, Len(table_persons_list) - 1))

\* lines 45-47: pop the last person and pair it with those still listed
RECURSIVE pair_table(_, _)
pair_table(st, table_persons_list) ==
    IF Len(table_persons_list) = 0 THEN st
    ELSE LET person == table_persons_list[Len(table_persons_list)]
             rest   == SubSeq(table_persons_list, 1, Len(table_persons_list) - 1)
         IN  pair_table(add_persons(st, person, rest), rest)

HistNames == 1..MaxHistNames

\* the Name column of one table of a seating-plan file
NameLists == UNION {[1..k -> HistNames] : k \in 0..MaxGroupLen}

\* the roster entries names.csv gives (none of them a record without GROUP)
RosterPersons(n) ==
    {Person(n, "STUDENT", <<>>, {}, FALSE, <<>>), Person(n, "TA", <<>>, {}, TRUE, <<>>)}

Rosters ==
    UNION {{ps \in [S -> UNION {RosterPersons(n) : n \in S}] :
                \A n \in S : ps[n] \in RosterPersons(n)} : S \in SUBSET HistNames}

TablesRead == SumSeq([k \in 1..Len(seating_plans) |-> Len(seating_plans[k])])

\* a fresh roster and no seating plan read yet
HistInit ==
    /\ group = [n \in Names |-> "NONE"]
    /\ exclude = [n \in Names |-> FALSE]
    /\ preferred = [n \in Names |-> {}]
    /\ pair_counts = NoPairs.counts
    /\ pair_keys = NoPairs.keys
    /\ capacity = <<>>
    /\ people = <<>>
    /\ ta_persons = <<>> /\ student_persons = <<>>
    /\ faculty_persons = <<>> /\ guest_persons = <<>>
    /\ extra_tas = <<>> /\ persons_w_pref_or_as_pref = <<>>
    /\ unseated_people = <<>>
    /\ sorted_tables = <<>>
    /\ people_table_placement = <<>>
    /\ i = 0 /\ qpos = 0
    /\ pc = "history"
    /\ err = "none"
    /\ seating_plan = <<>>
    /\ last_call = NoCall
    /\ persons \in Rosters
    /\ seating_plans = <<>>
    /\ ret = NoRet /\ GroupIdle /\ LayoutIdle /\ HashIdle

\* line 30: the loop turns to the next seating plan
NextSeatingPlan ==
    /\ pc = "history"
    /\ Len(seating_plans) < MaxPlans
    /\ seating_plans' = Append(seating_plans, <<>>)
    /\ UNCHANGED <<personVars, pairVars, capacity, people, planVars, pc,
                   last_call, persons, ret, groupVars, layoutVars, hashVars>>

\* lines 32-47: one table of the current seating plan
ProcessTable(names) ==
    /\ pc = "history"
    /\ Len(seating_plans) >= 1
    /\ TablesRead < MaxRecords
    /\ seating_plans' = [seating_plans EXCEPT ![Len(seating_plans)] = Append(@, names)]
    /\ LET r  == read_table(persons, names)
           st == pair_table(PairTables, r.list)
       IN  /\ persons' = r.persons
           /\ IF r.raised
              THEN /\ pc' = "error" /\ err' = "key_error"
                   /\ UNCHANGED pairVars
              ELSE /\ pair_counts' = st.counts
                   /\ pair_keys' = st.keys
                   /\ UNCHANGED <<pc, err>>
    /\ UNCHANGED <<personVars, capacity, people, ta_persons, student_persons,
                   faculty_persons, guest_persons, extra_tas,
                   persons_w_pref_or_as_pref, unseated_people, sorted_tables,
                   people_table_placement, i, qpos, seating_plan, last_call,
                   ret, groupVars, layoutVars, hashVars>>

HistNext ==
    \/ NextSeatingPlan
    \/ \E names \in NameLists : ProcessTable(names)

HistSpec == HistInit /\ [][HistNext]_vars

\* ------------------------------------------------- tables.py: Table calls
\* an add_person whose test is off by one
table_add_person_above(cap, ppl, person) ==
    IF Len(ppl) > cap
    THEN [people |-> ppl, value |-> 0, raised |-> TRUE]
    ELSE [people |-> Append(ppl, person), value |-> Len(ppl) + 1, raised |-> FALSE]

\* Table.add_person: ValueError on a full table, else append and return seated
table_add_person(cap, ppl, person) ==
    IF Len(ppl) >= cap
    THEN [people |-> ppl, value |-> 0, raised |-> TRUE]
    ELSE [people |-> Append(ppl, person), value |-> Len(ppl) + 1, raised |-> FALSE]

\* Table.remove_person: list.remove takes out the first equal element and
\* raises ValueError when there is none
table_remove_person(cap, ppl, person) ==
    IF person \notin Range(ppl)
    THEN [people |-> ppl, value |-> 0, raised |-> TRUE]
    ELSE LET k == CHOOSE a \in 1..Len(ppl) :
                    ppl[a] = person /\ \A b \in 1..(a - 1) : ppl[b] # person
             rest == SubSeq(ppl, 1, k - 1) \o SubSeq(ppl, k + 1, Len(ppl))
         IN  [people |-> rest, value |-> Len(rest), raised |-> FALSE]

\* Table(name, capacity): one table, nobody seated
TableInit ==
    /\ group = [n \in Names |-> "NONE"]
    /\ exclude = [n \in Names |-> FALSE]
    /\ preferred = [n \in Names |-> {}]
    /\ pair_counts = NoPairs.counts
    /\ pair_keys = NoPairs.keys
    /\ \E c \in 0..MaxCap : capacity = <<c>>
    /\ people = <<<<>>>>
    /\ ta_persons = <<>> /\ student_persons = <<>>
    /\ faculty_persons = <<>> /\ guest_persons = <<>>
    /\ extra_tas = <<>> /\ persons_w_pref_or_as_pref = <<>>
    /\ unseated_people = <<>>
    /\ sorted_tables = <<>>
    /\ people_table_placement = <<>>
    /\ i = 0 /\ qpos = 0
    /\ pc = "table"
    /\ err = "none"
    /\ seating_plan = <<>>
    /\ last_call = NoCall
    /\ AuxIdle

\* table.add_person(person)
AddPerson(person) ==
    /\ pc = "table"
    /\ LET r == table_add_person(capacity[1], people[1], person)
       IN  /\ people' = <<r.people>>
           /\ ret' = [op |-> "add_person", person |-> person,
                      value |-> r.value, raised |-> r.raised]
    /\ UNCHANGED <<personVars, pairVars, capacity, planVars, pc, last_call,
                   histVars, groupVars, layoutVars, hashVars>>

\* table.remove_person(person)
RemovePerson(person) ==
    /\ pc = "table"
    /\ LET r == table_remove_person(capacity[1], people[1], person)
       IN  /\ people' = <<r.people>>
           /\ ret' = [op |-> "remove_person", person |-> person,
                      value |-> r.value, raised |-> r.raised]
    /\ UNCHANGED <<personVars, pairVars, capacity, planVars, pc, last_call,
                   histVars, groupVars, layoutVars, hashVars>>

TableNext ==
    \/ \E person \in Names : AddPerson(person)
    \/ \E person \in Names : RemovePerson(person)

TableSpec == TableInit /\ [][TableNext]_vars

\* ---------------------------------- group_plan.py: groups by background
NoSkill == -1

\* a sort in descending order, so that pop() takes the lowest value
RECURSIVE sort_descending(_, _)
sort_descending(bg, n) ==
    IF n = 0 THEN <<>>
    ELSE LET s == sort_descending(bg, n - 1)
         IN  IF bg[n] = NoSkill THEN s
             ELSE SelectSeq(s, LAMBDA x : bg[x] >= bg[n]) \o <<n>>
                      \o SelectSeq(s, LAMBDA x : bg[x] < bg[n])

\* lines 50-52 and 60: the first n persons of the roster that have a value
\* for the background, sorted by that value (stable: ties stay in roster
\* order)
RECURSIVE sorted_people_with_background(_, _)
sorted_people_with_background(bg, n) ==
    IF n = 0 THEN <<>>
    ELSE LET s == sorted_people_with_background(bg, n - 1)
         IN  IF bg[n] = NoSkill THEN s
             ELSE SelectSeq(s, LAMBDA x : bg[x] <= bg[n]) \o <<n>>
                      \o SelectSeq(s, LAMBDA x : bg[x] > bg[n])

\* lines 76-84: the raw score of a candidate against the popped person
skill_diff(person, other) ==
    IF match
    THEN (backgrounds[other] - backgrounds[person]) * (backgrounds[other] - backgrounds[person])
    ELSE backgrounds[other] + backgrounds[person]

MaxOf(S) == CHOOSE x \in S : \A y \in S : y <= x

\* a score that leaves out the penalty for earlier pairings
penalized_diff_no_counts(person, pairs, k) ==
    2 * skill_diff(person, pairs[k])

\* line 87, times two: 2 * (skill_diff - max(skill_diff) / 2 * counts ** 2),
\* clipped at 0
penalized_diff(person, pairs, k) ==
    LET top == MaxOf({skill_diff(person, pairs[j]) : j \in 1..Len(pairs)})
        c   == pair_counts[person][pairs[k]]
        v   == 2 * skill_diff(person, pairs[k]) - top * c * c
    IN  IF v < 0 THEN 0 ELSE v

\* lines 96-105: the candidates with a non-zero probability (all of them
\* when every score is 0)
drawable(person, pairs) ==
    IF \A k \in 1..Len(pairs) : penalized_diff(person, pairs, k) = 0
    THEN Range(pairs)
    ELSE {pairs[k] : k \in {j \in 1..Len(pairs) : penalized_diff(person, pairs, j) > 0}}

\* rng.choice(pairs, size, replace=False, p): every draw of size distinct
\* candidates of non-zero probability, in the order drawn
choices(person, pairs, size) ==
    {s \in [1..size -> drawable(person, pairs)] :
        \A a, b \in 1..size : a # b => s[a] # s[b]}

\* the loop test of line 64
can_form_group(pwb, size) == Len(pwb) >= size

\* a leftover test that allows one leftover too many
too_many_leftovers_above(pwb, gs) == Len(pwb) > Len(gs) + 1

\* the test of line 114
too_many_leftovers(pwb, gs) == Len(pwb) > Len(gs)

\* a distribution that starts at the last group
RECURSIVE add_leftovers_from_last(_, _, _)
add_leftovers_from_last(gs, pwb, idx) ==
    IF Len(pwb) = 0 THEN gs
    ELSE add_leftovers_from_last([gs EXCEPT ![Len(gs) + 1 - idx] = Append(@, pwb[Len(pwb)])],
                                 SubSeq(pwb, 1, Len(pwb) - 1), idx + 1)

\* lines 125-128: groups[idx].append(people_with_background.pop())
RECURSIVE add_leftovers(_, _, _)
add_leftovers(gs, pwb, idx) ==
    IF Len(pwb) = 0 THEN gs
    ELSE add_leftovers([gs EXCEPT ![idx] = Append(@, pwb[Len(pwb)])],
                       SubSeq(pwb, 1, Len(pwb) - 1), idx + 1)

Skills == 0..MaxSkill

\* the roster handed to create_groups_based_on_background
GroupNames == 1..MaxGroupPersons

\* Names are interchangeable and the sort is stable, so the roster is listed
\* by background value, the persons without a value first.
GroupBackgrounds ==
    {bg \in [GroupNames -> Skills \cup {NoSkill}] :
        \A a, b \in GroupNames : a < b => bg[a] <= bg[b]}

GroupNoPairs == [counts |-> [n \in GroupNames |-> [m \in GroupNames |-> 0]],
                 keys   |-> [n \in GroupNames |-> {}],
                 calls  |-> 0]

\* the pairing tables of the roster before grouping: what at most k
\* add_pair calls leave behind
RECURSIVE GroupHistories(_)
GroupHistories(k) ==
    IF k = 0 THEN {GroupNoPairs}
    ELSE LET prev == GroupHistories(k - 1)
         IN  prev \cup {[add_pair(h, e[1], e[2], TRUE) EXCEPT !.calls = 0] :
                            h \in prev, e \in {d \in GroupNames \X GroupNames : d[1] < d[2]}}

GroupInit ==
    /\ group = [n \in Names |-> "NONE"]
    /\ exclude = [n \in Names |-> FALSE]
    /\ preferred = [n \in Names |-> {}]
    /\ \E h \in GroupHistories(MaxGroupHist) : pair_counts = h.counts /\ pair_keys = h.keys
    /\ capacity = <<>>
    /\ people = <<>>
    /\ ta_persons = <<>> /\ student_persons = <<>>
    /\ faculty_persons = <<>> /\ guest_persons = <<>>
    /\ extra_tas = <<>> /\ persons_w_pref_or_as_pref = <<>>
    /\ unseated_people = <<>>
    /\ sorted_tables = <<>>
    /\ people_table_placement = <<>>
    /\ i = 0 /\ qpos = 0
    /\ pc = "group_start"
    /\ err = "none"
    /\ seating_plan = <<>>
    /\ last_call = NoCall
    /\ HistIdle /\ ret = NoRet /\ LayoutIdle /\ HashIdle
    /\ backgrounds \in GroupBackgrounds
    /\ group_size \in 0..MaxGroupSize
    /\ match \in BOOLEAN
    /\ people_with_background = <<>>
    /\ groups = <<>>
    /\ grouping_plan = <<>>

\* lines 49-60: ValueError when nobody has the background
SelectBackground ==
    /\ pc = "group_start"
    /\ people_with_background' = sorted_people_with_background(backgrounds, MaxGroupPersons)
    /\ IF Len(people_with_background') = 0
       THEN pc' = "error" /\ err' = "no_people_with_background"
       ELSE pc' = "grouping" /\ UNCHANGED err
    /\ UNCHANGED <<personVars, pairVars, capacity, people, ta_persons,
                   student_persons, faculty_persons, guest_persons, extra_tas,
                   persons_w_pref_or_as_pref, unseated_people, sorted_tables,
                   people_table_placement, i, qpos, seating_plan, last_call,
                   histVars, ret, backgrounds, group_size, match, groups,
                   grouping_plan, layoutVars, hashVars>>

\* lines 64-112: one group; max() of no score, a negative size and too few
\* candidates of non-zero probability end the run
FormGroup ==
    /\ pc = "grouping"
    /\ can_form_group(people_with_background, group_size)
    /\ LET person == people_with_background[Len(people_with_background)]
           rest   == SubSeq(people_with_background, 1, Len(people_with_background) - 1)
           pairs  == get_pair_count_for_people(pair_counts, person, rest).options
           size   == group_size - 1
       IN  /\ pair_keys' = [pair_keys EXCEPT ![person] = @ \cup Range(rest)]
           /\ IF Len(pairs) = 0
              THEN /\ pc' = "error" /\ err' = "max_of_empty"
                   /\ people_with_background' = rest
                   /\ UNCHANGED groups
              ELSE IF size < 0
              THEN /\ pc' = "error" /\ err' = "negative_dimensions"
                   /\ people_with_background' = rest
                   /\ UNCHANGED groups
              ELSE IF Cardinality(drawable(person, pairs)) < size
              THEN /\ pc' = "error" /\ err' = "fewer_nonzero_than_size"
                   /\ people_with_background' = rest
                   /\ UNCHANGED groups
              ELSE \E other_people_in_group \in choices(person, pairs, size) :
                      /\ people_with_background' =
                            SelectSeq(rest, LAMBDA n : n \notin Range(other_people_in_group))
                      /\ groups' = Append(groups, <<person>> \o other_people_in_group)
                      /\ UNCHANGED <<pc, err>>
    /\ UNCHANGED <<personVars, pair_counts, capacity, people, ta_persons,
                   student_persons, faculty_persons, guest_persons, extra_tas,
                   persons_w_pref_or_as_pref, unseated_people, sorted_tables,
                   people_table_placement, i, qpos, seating_plan, last_call,
                   histVars, ret, backgrounds, group_size, match,
                   grouping_plan, layoutVars, hashVars>>

\* lines 114-119: ValueError on more leftovers than groups
TooManyLeftovers ==
    /\ pc = "grouping"
    /\ ~can_form_group(people_with_background, group_size)
    /\ too_many_leftovers(people_with_background, groups)
    /\ pc' = "error"
    /\ err' = "more_leftovers_than_groups"
    /\ UNCHANGED <<personVars, pairVars, capacity, people, ta_persons,
                   student_persons, faculty_persons, guest_persons, extra_tas,
                   persons_w_pref_or_as_pref, unseated_people, sorted_tables,
                   people_table_placement, i, qpos, seating_plan, last_call,
                   auxVars>>

\* lines 120-166: the leftovers join the first groups and the grouping is
\* returned, one list of names per group
ReturnGroups ==
    /\ pc = "grouping"
    /\ ~can_form_group(people_with_background, group_size)
    /\ ~too_many_leftovers(people_with_background, groups)
    /\ groups' = add_leftovers(groups, people_with_background, 1)
    /\ people_with_background' = <<>>
    /\ grouping_plan' = groups'
    /\ pc' = "done"
    /\ UNCHANGED <<personVars, pairVars, capacity, people, ta_persons,
                   student_persons, faculty_persons, guest_persons, extra_tas,
                   persons_w_pref_or_as_pref, unseated_people, sorted_tables,
                   people_table_placement, i, qpos, err, seating_plan, last_call,
                   histVars, ret, backgrounds, group_size, match,
                   layoutVars, hashVars>>

GroupNext ==
    \/ SelectBackground
    \/ FormGroup
    \/ TooManyLeftovers
    \/ ReturnGroups

GroupSpec == GroupInit /\ [][GroupNext]_vars

\* The same function on rosters in which any person may be marked excluded
\* (Person.exclude), without earlier pairings.
ExcludedGroupInit ==
    /\ group = [n \in Names |-> "NONE"]
    /\ exclude \in [GroupNames -> BOOLEAN]
    /\ preferred = [n \in Names |-> {}]
    /\ pair_counts = GroupNoPairs.counts /\ pair_keys = GroupNoPairs.keys
    /\ capacity = <<>>
    /\ people = <<>>
    /\ ta_persons = <<>> /\ student_persons = <<>>
    /\ faculty_persons = <<>> /\ guest_persons = <<>>
    /\ extra_tas = <<>> /\ persons_w_pref_or_as_pref = <<>>
    /\ unseated_people = <<>>
    /\ sorted_tables = <<>>
    /\ people_table_placement = <<>>
    /\ i = 0 /\ qpos = 0
    /\ pc = "group_start"
    /\ err = "none"
    /\ seating_plan = <<>>
    /\ last_call = NoCall
    /\ HistIdle /\ ret = NoRet /\ LayoutIdle /\ HashIdle
    /\ backgrounds \in GroupBackgrounds
    /\ group_size \in 0..MaxGroupSize
    /\ match \in BOOLEAN
    /\ people_with_background = <<>>
    /\ groups = <<>>
    /\ grouping_plan = <<>>

ExcludedGroupSpec == ExcludedGroupInit /\ [][GroupNext]_vars

\* ----------------------------------------- tables.py: define_table_layout
\* the TABLE column: some spellings of two tables
Labels == {"a", "A", "table a", "Table A", "b", "table b"}

\* str.lower on the labels
lower(s) ==
    CASE s = "A" -> "a"
      [] s = "Table A" -> "table a"
      [] OTHER -> s

\* line 72-73: "table" not in name, and f"table {name}"
contains_table(s) == s \in {"table a", "Table A", "table b"}

with_table(s) ==
    CASE s = "a" -> "table a"
      [] s = "A" -> "table A"
      [] s = "b" -> "table b"
      [] OTHER -> s

\* str.capitalize: first character upper case, the rest lower case
capitalize(s) ==
    CASE s \in {"table a", "Table A", "table A"} -> "Table a"
      [] s = "table b" -> "Table b"
      [] s = "a" -> "A"
      [] s = "b" -> "B"
      [] OTHER -> s

\* lines 70-74: the key of the table in the dict
table_name(label) ==
    LET name == lower(label)
    IN  capitalize(IF ~contains_table(name) THEN with_table(name) ELSE name)

\* the rows of the layout file: TABLE and SIZE
LayoutRows == [TABLE : Labels, SIZE : 0..MaxCap]

LayoutFiles == UNION {[1..k -> LayoutRows] : k \in 0..MaxRows}

LayoutInit ==
    /\ group = [n \in Names |-> "NONE"]
    /\ exclude = [n \in Names |-> FALSE]
    /\ preferred = [n \in Names |-> {}]
    /\ pair_counts = NoPairs.counts
    /\ pair_keys = NoPairs.keys
    /\ capacity = <<>>
    /\ people = <<>>
    /\ ta_persons = <<>> /\ student_persons = <<>>
    /\ faculty_persons = <<>> /\ guest_persons = <<>>
    /\ extra_tas = <<>> /\ persons_w_pref_or_as_pref = <<>>
    /\ unseated_people = <<>>
    /\ sorted_tables = <<>>
    /\ people_table_placement = <<>>
    /\ i = 0 /\ qpos = 0
    /\ pc = "layout"
    /\ err = "none"
    /\ seating_plan = <<>>
    /\ last_call = NoCall
    /\ HistIdle /\ ret = NoRet /\ GroupIdle /\ HashIdle
    /\ layout \in LayoutFiles
    /\ layout_tables = <<>>

\* lines 69-77: one row of the layout; ValueError on a name already defined
AddTable ==
    /\ pc = "layout"
    /\ Len(layout_tables) < Len(layout)
    /\ LET table == layout[Len(layout_tables) + 1]
           name  == table_name(table.TABLE)
           size  == table.SIZE
       IN  IF \E k \in 1..Len(layout_tables) : layout_tables[k].name = name
           THEN /\ pc' = "error" /\ err' = "already_defined"
                /\ UNCHANGED layout_tables
           ELSE /\ layout_tables' = Append(layout_tables,
                                           [name |-> name, capacity |-> size, people |-> <<>>])
                /\ UNCHANGED <<pc, err>>
    /\ UNCHANGED <<personVars, pairVars, capacity, people, ta_persons,
                   student_persons, faculty_persons, guest_persons, extra_tas,
                   persons_w_pref_or_as_pref, unseated_people, sorted_tables,
                   people_table_placement, i, qpos, seating_plan, last_call,
                   histVars, ret, groupVars, layout, hashVars>>

\* line 78: the dict of tables is returned
ReturnLayout ==
    /\ pc = "layout"
    /\ Len(layout_tables) = Len(layout)
    /\ pc' = "done"
    /\ UNCHANGED <<personVars, pairVars, capacity, people, ta_persons,
                   student_persons, faculty_persons, guest_persons, extra_tas,
                   persons_w_pref_or_as_pref, unseated_people, sorted_tables,
                   people_table_placement, i, qpos, err, seating_plan, last_call,
                   auxVars>>

LayoutNext ==
    \/ AddTable
    \/ ReturnLayout

LayoutSpec == LayoutInit /\ [][LayoutNext]_vars

\* ------------------------------------- persons.py: __eq__ and __hash__
\* the strings a Person of this model hashes: names, GROUP values ("NONE" is
\* None), str(backgrounds) and str(props)
HashNames       == {"Sipho", "Anna"}
HashGroups      == {"NONE", "STUDENT"}
HashBackgrounds == {"{}", "{'Math': 1.0}"}
HashProps       == {"{}", "{'ROOM': 2}"}
HashedStrings   == HashNames \cup HashGroups \cup HashBackgrounds \cup HashProps

\* hash() of the strings and of None: fixed within a process, any value
\* across processes
StrHashes == [HashedStrings -> 0..MaxHash]

\* hash(True) = 1, hash(False) = 0
bool_hash(b) == IF b THEN 1 ELSE 0

\* line 127: self._unique_name = f"{self.name}_{hash(self.name)}"
unique_name(p) == <<p.name, str_hash[p.name]>>

\* Person.__eq__
person_eq(p, q) == unique_name(p) = unique_name(q)

\* Person.__hash__
person_hash(p) ==
    str_hash[p.name] + str_hash[p.group] + str_hash[p.backgrounds]
        + bool_hash(p.exclude) + str_hash[p.props]

\* the keys of a dict after d[p] += 1; d[q] += 1: one key when the hashes and
\* the persons are equal, two otherwise
dict_keys(p, q) ==
    IF person_hash(p) = person_hash(q) /\ person_eq(p, q) THEN 1 ELSE 2

HashPersons ==
    {Person(n, g, bg, {}, x, pr) :
        n \in HashNames, g \in HashGroups, bg \in HashBackgrounds,
        x \in BOOLEAN, pr \in HashProps}

HashInit ==
    /\ group = [n \in Names |-> "NONE"]
    /\ exclude = [n \in Names |-> FALSE]
    /\ preferred = [n \in Names |-> {}]
    /\ pair_counts = NoPairs.counts
    /\ pair_keys = NoPairs.keys
    /\ capacity = <<>>
    /\ people = <<>>
    /\ ta_persons = <<>> /\ student_persons = <<>>
    /\ faculty_persons = <<>> /\ guest_persons = <<>>
    /\ extra_tas = <<>> /\ persons_w_pref_or_as_pref = <<>>
    /\ unseated_people = <<>>
    /\ sorted_tables = <<>>
    /\ people_table_placement = <<>>
    /\ i = 0 /\ qpos = 0
    /\ pc = "hash"
    /\ err = "none"
    /\ seating_plan = <<>>
    /\ last_call = NoCall
    /\ HistIdle /\ ret = NoRet /\ GroupIdle /\ LayoutIdle
    /\ person1 \in HashPersons
    /\ person2 \in HashPersons
    /\ str_hash \in StrHashes

\* person1 == person2, hash(person1), hash(person2), and both used as keys
\* of one pair_counts dict
ComparePersons ==
    /\ pc = "hash"
    /\ ret' = [op |-> "compare",
               eq |-> person_eq(person1, person2),
               hash1 |-> person_hash(person1),
               hash2 |-> person_hash(person2),
               keys |-> dict_keys(person1, person2)]
    /\ pc' = "done"
    /\ UNCHANGED <<personVars, pairVars, capacity, people, ta_persons,
                   student_persons, faculty_persons, guest_persons, extra_tas,
                   persons_w_pref_or_as_pref, unseated_people, sorted_tables,
                   people_table_placement, i, qpos, err, seating_plan, last_call,
                   histVars, groupVars, layoutVars, hashVars>>

HashNext == ComparePersons

HashSpec == HashInit /\ [][HashNext]_vars

\* ------------------------------------------------------------- properties
ActivePersons == {n \in Names : ~exclude[n]}
ActiveTAs     == {n \in ActivePersons : group[n] = "TA"}
NumTables     == Len(capacity)

\* the seats (table, position) a person holds in a seating
SeatsOf(plan, n) ==
    UNION {{<<t, k>> : k \in {j \in 1..Len(plan[t]) : plan[t][j] = n}} : t \in DOMAIN plan}

Occupants(plan) == SumSeq([t \in DOMAIN plan |-> Len(plan[t])])

RoleCount(plan, t, g) == Cardinality({k \in 1..Len(plan[t]) : group[plan[t][k]] = g})

Returned == pc = "done"

\* C1: a returned seating holds every active person, whatever the role,
\* exactly once, has as many occupants as there are active persons and
\* fills no table beyond its capacity.
C1_EveryActivePersonSeatedOnce ==
    Returned =>
        /\ \A n \in ActivePersons : Cardinality(SeatsOf(seating_plan, n)) = 1
        /\ Occupants(seating_plan) = Cardinality(ActivePersons)
        /\ \A t \in DOMAIN seating_plan : Len(seating_plan[t]) <= capacity[t]

\* C2: in a returned seating over at least two tables, no table is without
\* a TA while another table has two or more.
C2_NoTableWithoutTAWhileAnotherHasTwo ==
    (Returned /\ NumTables >= 2) =>
        ~ \E t, u \in DOMAIN seating_plan :
            RoleCount(seating_plan, t, "TA") = 0 /\ RoleCount(seating_plan, u, "TA") >= 2

C2_Witness ==
    /\ Returned /\ NumTables >= 2
    /\ \E u \in DOMAIN seating_plan : RoleCount(seating_plan, u, "TA") >= 2

\* every active person has one of the four roles that are seated
EveryoneHasSeatingRole == \A n \in ActivePersons : group[n] # "NONE"

\* C3: with fewer active TAs than tables the run does not return a seating
\* (stated for the rosters in which every active person has a seating role,
\* so that it does not rest on the persons C1 finds left out).
C3_TooFewTAsNeverReturns ==
    (EveryoneHasSeatingRole /\ Cardinality(ActiveTAs) < NumTables) => ~Returned

\* C4: with at least as many active TAs as tables, the TA loop puts the
\* k-th TA of the bucket alone at the k-th smallest table before anyone else
\* is seated, and every table of the returned seating has a TA.
C4_OneTAPerTableFirst ==
    Cardinality(ActiveTAs) >= NumTables =>
        /\ pc \in {"seat_tas", "queue", "checks", "done"} =>
              /\ Len(ta_persons) = NumTables
              /\ \A k \in 1..(NumTables - 1) :
                    capacity[sorted_tables[k]] <= capacity[sorted_tables[k + 1]]
              /\ \A k \in 1..NumTables : group[ta_persons[k]] = "TA"
        /\ pc = "seat_tas" =>
              /\ \A k \in 1..NumTables :
                    people[sorted_tables[k]] = IF k < i THEN <<ta_persons[k]>> ELSE <<>>
              /\ \A n \in Range(ta_persons \o extra_tas) :
                    n \in Range(ta_persons) \/ people_table_placement[n] = -1
        /\ pc \in {"queue", "checks", "done"} =>
              \A k \in 1..NumTables : Head(people[sorted_tables[k]]) = ta_persons[k]
        /\ Returned =>
              \A t \in DOMAIN seating_plan : RoleCount(seating_plan, t, "TA") >= 1

C4_Witness ==
    /\ Returned /\ NumTables >= 2
    /\ Cardinality(ActiveTAs) > NumTables
    /\ \E t, u \in DOMAIN capacity : capacity[t] < capacity[u]

\* C5: no table of a returned seating holds more than one FACULTY member.
C5_AtMostOneFacultyPerTable ==
    Returned =>
        \A t \in DOMAIN seating_plan : RoleCount(seating_plan, t, "FACULTY") <= 1

\* a table with several FACULTY members next to a table with none
Imbalanced(plan) ==
    \E t, u \in DOMAIN plan :
        RoleCount(plan, t, "FACULTY") > 1 /\ RoleCount(plan, u, "FACULTY") = 0

\* C6: a seating is returned only without a table of several FACULTY next to
\* a table of none; an occupancy with such a pair ends in the error of the
\* faculty check and nothing is returned.
C6_ImbalanceNeverReturned ==
    /\ Returned => (~Imbalanced(seating_plan) /\ ~Imbalanced(people))
    /\ (pc = "error" /\ err = "faculty_imbalance") =>
            (Imbalanced(people) /\ seating_plan = <<>>)

C6_Witness ==
    /\ pc = "error" /\ err = "faculty_imbalance"
    /\ Imbalanced(people)

\* C7: when the tables have fewer seats than there are active persons, the
\* run ends in the capacity error with every table still empty and nobody
\* placed.
C7_CapacityErrorBeforeSeating ==
    SumSeq(capacity) < Cardinality(ActivePersons) =>
        /\ pc \in {"start", "capacity", "error"}
        /\ pc = "error" => err = "not_enough_seats"
        /\ \A t \in DOMAIN people : people[t] = <<>>
        /\ \A n \in DOMAIN people_table_placement : people_table_placement[n] = -1

\* C8: in a returned seating over at least two tables, two active persons
\* of whom one lists the other as preferred sit at the same table (stated
\* for the rosters in which every active person has a seating role, for two
\* persons that are not the per-table TAs of step 13, and for layouts with a
\* table that can hold a TA and both of them).
C8_PreferredPairsShareTable ==
    (/\ Returned /\ NumTables >= 2
     /\ EveryoneHasSeatingRole
     /\ \E t \in DOMAIN capacity : capacity[t] >= 3) =>
        \A a, b \in ActivePersons \ Range(ta_persons) :
            b \in preferred[a] =>
                \E t \in DOMAIN seating_plan :
                    a \in Range(seating_plan[t]) /\ b \in Range(seating_plan[t])

\* C9: after any sequence of add_pair and add_persons calls from empty
\* pairing tables, the count A holds for B equals the count B holds for A.
C9_PairCountsSymmetric ==
    \A a, b \in Names : pair_counts[a][b] = pair_counts[b][a]

C9_Witness ==
    /\ last_call.op = "add_persons"
    /\ \E a, b \in Names : a # b /\ pair_counts[a][b] = 2 /\ pair_counts[b][a] = 2

\* C10: add_pair(A, B) with A # B raises the count of A for B and of B for A
\* by one and leaves every other count alone; add_pair(A, A) changes nothing;
\* the call makes one nested call at most (none for A = A) and ends.
C10_AddPairEffect ==
    [][last_call'.op = "add_pair" =>
        LET a == last_call'.self
            b == last_call'.others[1]
        IN  /\ a # b =>
                /\ \A n, m \in Names :
                      pair_counts'[n][m] =
                          pair_counts[n][m] + (IF <<n, m>> \in {<<a, b>>, <<b, a>>} THEN 1 ELSE 0)
                /\ last_call'.calls = 2
            /\ a = b =>
                /\ pair_counts' = pair_counts
                /\ pair_keys' = pair_keys
                /\ last_call'.calls = 1]_vars

C10_Witness ==
    /\ last_call.op = "add_pair"
    /\ last_call.self # last_call.others[1]
    /\ last_call.calls = 2
    /\ pair_counts[last_call.self][last_call.others[1]] = 2
    /\ \E n, m \in Names : n # m /\ pair_counts[n][m] = 0

\* the history read so far is a complete input of process_previous_pairings:
\* the function keeps nothing between two tables but the roster and the counts
NoRepeats ==
    \A r \in 1..Len(seating_plans) : \A g \in 1..Len(seating_plans[r]) :
        \A a, b \in 1..Len(seating_plans[r][g]) :
            a # b => seating_plans[r][g][a] # seating_plans[r][g][b]

\* the (seating plan, table) combinations in which both names appear
SatTogether(a, b) ==
    {rg \in UNION {{<<r, g>> : g \in 1..Len(seating_plans[r])} : r \in 1..Len(seating_plans)} :
        {a, b} \subseteq Range(seating_plans[rg[1]][rg[2]])}

\* C11: after process_previous_pairings on a fresh roster, with no name twice
\* in one table of one seating plan, the pairing count of two distinct
\* persons is the number of (seating plan, table) combinations that hold both.
C11_CountsEqualSharedTables ==
    NoRepeats =>
        \A a, b \in Names : a # b => pair_counts[a][b] = Cardinality(SatTogether(a, b))

C11_Witness ==
    /\ NoRepeats
    /\ \E r \in 1..Len(seating_plans) : \E g \in 1..Len(seating_plans[r]) :
            Len(seating_plans[r][g]) = 3
    /\ \E a, b \in Names : a # b /\ pair_counts[a][b] = 2
    /\ \E a, b \in Names : a # b /\ pair_counts[a][b] = 1

LastTable == seating_plans[Len(seating_plans)][Len(seating_plans[Len(seating_plans)])]

\* C12: reading a table never fails on a name the roster lacks; every such
\* name gets a minimal Person (no role, not excluded, no preferences), every
\* roster entry that was there stays as it was, every name of the history is
\* a key of the roster afterwards, and a pair with an added person is counted
\* like any other pair.
C12_UnknownNamesAreAdded ==
    [][TablesRead' > TablesRead =>
        LET names == LastTable'
        IN  /\ err' = "none" /\ pc' = "history"
            /\ DOMAIN persons' = DOMAIN persons \cup Range(names)
            /\ \A n \in DOMAIN persons : persons'[n] = persons[n]
            /\ \A n \in Range(names) \ DOMAIN persons : persons'[n] = minimal_person(n)
            /\ \A r \in 1..Len(seating_plans') : \A g \in 1..Len(seating_plans'[r]) :
                  Range(seating_plans'[r][g]) \subseteq DOMAIN persons'
            /\ NoRepeats' =>
                  \A n \in Range(names) \ DOMAIN persons : \A m \in Range(names) \ {n} :
                      /\ pair_counts'[n][m] = pair_counts[n][m] + 1
                      /\ pair_counts'[m][n] = pair_counts[m][n] + 1]_vars

C12_Witness ==
    /\ pc = "history" /\ NoRepeats
    /\ \E n, m \in DOMAIN persons :
          /\ persons[n] = minimal_person(n)
          /\ persons[m] # minimal_person(m)
          /\ pair_counts[n][m] = 2

\* C13: a Table that starts empty never holds more occupants than its
\* capacity; add_person on a full table raises and leaves the occupants as
\* they were; a call that returns, returns the number of occupants after it.
C13_TableNeverOverfull ==
    [][/\ Len(people'[1]) <= capacity'[1]
       /\ (ret'.op = "add_person" /\ Len(people[1]) >= capacity[1]) =>
              (ret'.raised /\ people' = people)
       /\ (ret'.op = "add_person" /\ ~ret'.raised) =>
              (people'[1] = Append(people[1], ret'.person) /\ ret'.value = Len(people'[1]))
       /\ (ret'.op = "remove_person" /\ ~ret'.raised) =>
              (Len(people'[1]) = Len(people[1]) - 1 /\ ret'.value = Len(people'[1]))]_vars

C13_Witness ==
    /\ pc = "table"
    /\ ret.op = "add_person" /\ ret.raised
    /\ capacity[1] >= 2 /\ Len(people[1]) = capacity[1]
    /\ \E a, b \in 1..Len(people[1]) : people[1][a] # people[1][b]

\* the persons that have a value for the requested background
Candidates == {n \in DOMAIN backgrounds : backgrounds[n] # NoSkill}

\* C14: with nobody holding the background, or with a group_size above the
\* number of persons holding it, create_groups_based_on_background forms no
\* group, returns no grouping and ends in its ValueError (no candidates, or
\* more leftovers than groups).
C14_TooLargeGroupSizeRaises ==
    LET n == Cardinality(Candidates)
    IN  (n = 0 \/ group_size > n) =>
            /\ pc \in {"group_start", "grouping", "error"}
            /\ grouping_plan = <<>> /\ groups = <<>>
            /\ pc = "grouping" => Len(people_with_background) = n
            /\ pc = "error" =>
                  err = IF n = 0 THEN "no_people_with_background"
                        ELSE "more_leftovers_than_groups"

C14_Witness ==
    /\ pc = "error" /\ err = "more_leftovers_than_groups"
    /\ Cardinality(Candidates) >= 2
    /\ group_size > Cardinality(Candidates)

\* C15: with a group_size equal to or above the number of persons holding
\* the background, no grouping is returned.
C15_GroupSizeOfAllCandidatesRejected ==
    group_size >= Cardinality(Candidates) => pc # "done"

\* C18: a returned grouping holds every person with the background exactly
\* once and nobody else; with k leftovers after the last formed group
\* (k < group_size), the first k groups have group_size + 1 members and the
\* others group_size.
C18_GroupsPartitionCandidates ==
    [][(pc = "grouping" /\ pc' = "done") =>
        LET k == Len(people_with_background)
            seats(n) == {gj \in UNION {{<<g, j>> : j \in 1..Len(grouping_plan'[g])} :
                                          g \in 1..Len(grouping_plan')} :
                            grouping_plan'[gj[1]][gj[2]] = n}
        IN  /\ \A n \in Candidates : Cardinality(seats(n)) = 1
            /\ \A n \in DOMAIN backgrounds \ Candidates : seats(n) = {}
            /\ k < group_size
            /\ \A g \in 1..Len(grouping_plan') :
                  Len(grouping_plan'[g]) = group_size + (IF g <= k THEN 1 ELSE 0)]_vars

C18_Witness ==
    /\ pc = "done"
    /\ Len(grouping_plan) = 2
    /\ Len(grouping_plan[1]) = 3 /\ Len(grouping_plan[2]) = 2

\* C16: define_table_layout returns no layout built from a row of capacity
\* 0: every table of a returned layout has a positive capacity.
C16_ZeroCapacityRejected ==
    pc = "done" =>
        /\ \A k \in 1..Len(layout) : layout[k].SIZE # 0
        /\ \A k \in 1..Len(layout_tables) : layout_tables[k].capacity > 0

\* C17: two Persons that are equal have the same hash, and so address one
\* entry of a pairing-count dict.
C17_EqualPersonsHashEqual ==
    (pc = "done" /\ ret.op = "compare" /\ ret.eq) =>
        (ret.hash1 = ret.hash2 /\ ret.keys = 1)

\* the class of a person in the queue of step 15
QueueClass(n) ==
    IF preferred[n] # {} THEN 1
    ELSE CASE group[n] = "FACULTY" -> 2
           [] group[n] = "GUEST"   -> 3
           [] group[n] = "STUDENT" -> 4
           [] group[n] = "TA"      -> 5
           [] OTHER                -> 6

\* C19: once the TAs of step 13 sit, the queue lists every other active
\* person with a seating role exactly once, in the order: persons with a
\* non-empty (mutual) preference set, FACULTY, GUEST, STUDENT, extra TAs; the
\* persons seated so far are the first ones of the queue, so nobody of a later
\* class sits before somebody of an earlier class.
C19_QueueInClassOrder ==
    pc \in {"queue", "checks", "done"} =>
        /\ \A a, b \in 1..Len(Queue) : a # b => Queue[a] # Queue[b]
        /\ Range(Queue) = {n \in ActivePersons : group[n] # "NONE"} \ Range(ta_persons)
        /\ \A a, b \in 1..Len(Queue) : a < b => QueueClass(Queue[a]) <= QueueClass(Queue[b])
        /\ \A k \in 1..Len(Queue) : QueueClass(Queue[k]) <= 5
        /\ \A k \in 1..Len(Queue) :
              (k < qpos) <=> (people_table_placement[Queue[k]] # -1)

C19_Witness ==
    /\ pc = "done" /\ qpos = 3
    /\ QueueClass(Queue[1]) = 1 /\ group[Queue[1]] = "STUDENT"
    /\ QueueClass(Queue[2]) = 5

\* the open tables that hold somebody mutually preferred with the person
PreferredTables(person) ==
    SelectSeq(sorted_tables,
              LAMBDA t : /\ Len(people[t]) < capacity[t]
                         /\ \E o \in Range(people[t]) :
                               o \in preferred[person] \/ person \in preferred[o])

\* C20: a person taken from the queue while some non-full table holds a
\* mutually preferred occupant is seated at the first such table in
\* ascending order of capacity.
C20_SeatedAtFirstPreferredTable ==
    [][(pc = "queue" /\ qpos <= Len(Queue) /\ PreferredTables(Queue[qpos]) # <<>>) =>
        LET person == Queue[qpos]
            t == Head(PreferredTables(person))
        IN  /\ people'[t] = Append(people[t], person)
            /\ people_table_placement'[person] = t
            /\ qpos' = qpos + 1]_vars

\* the occupants of any table that are mutually preferred with the person
PreferredOccupants(person) ==
    {o \in UNION {Range(people[t]) : t \in DOMAIN people} :
        o \in preferred[person] \/ person \in preferred[o]}

\* C21: with no pairing history and a TA at every table, a FACULTY person
\* without a mutually preferred occupant at any table is not seated at a
\* table that holds a FACULTY member while some non-full table holds none.
C21_SeniorAvoidsSeniorTable ==
    [][(/\ pc = "queue" /\ qpos <= Len(Queue)
        /\ is_faculty(Queue[qpos])
        /\ \A n, m \in Names : pair_counts[n][m] = 0
        /\ \A t \in DOMAIN people : RoleCount(people, t, "TA") >= 1
        /\ \A t \in DOMAIN capacity : capacity[t] < 100
        /\ PreferredOccupants(Queue[qpos]) = {}
        /\ \E u \in DOMAIN people :
              Len(people[u]) < capacity[u] /\ RoleCount(people, u, "FACULTY") = 0) =>
            \A t \in DOMAIN people :
                people'[t] # people[t] => RoleCount(people, t, "FACULTY") = 0]_vars

C21_Witness ==
    /\ Returned /\ NumTables = 2
    /\ \A n \in Names : preferred[n] = {}
    /\ \E t, u \in DOMAIN capacity :
          /\ capacity[t] = 5 /\ capacity[u] = 2
          /\ Len(people[t]) = 2 /\ Len(people[u]) = 2
          /\ RoleCount(people, t, "FACULTY") = 1
          /\ RoleCount(people, u, "FACULTY") = 1

\* the persons that take part in the grouping: those with a value for the
\* requested background
GroupCandidates == {n \in GroupNames : backgrounds[n] # NoSkill}

\* the persons of the groups formed before group g
PlacedBefore(g) == UNION {Range(groups[h]) : h \in 1..(g - 1)}

NextAnchor == people_with_background[Len(people_with_background)]

RestOfCandidates == SubSeq(people_with_background, 1, Len(people_with_background) - 1)

AllScoresZero ==
    \A k \in 1..Len(RestOfCandidates) : penalized_diff(NextAnchor, RestOfCandidates, k) = 0

\* C23: with non-negative skills, a candidate whose penalized score is 0 is
\* never drawn as a partner of the anchor unless every candidate's score is
\* 0; a candidate paired with the anchor two or more times has score 0; and
\* when every score is 0, every candidate can be drawn.
C23_ZeroScoreIsNeverDrawn ==
    [][(pc = "grouping" /\ can_form_group(people_with_background, group_size)
        /\ Len(RestOfCandidates) > 0) =>
          /\ \A k \in 1..Len(RestOfCandidates) :
                /\ (/\ Len(groups') = Len(groups) + 1
                    /\ RestOfCandidates[k] \in Range(groups'[Len(groups')])) =>
                       \/ penalized_diff(NextAnchor, RestOfCandidates, k) > 0
                       \/ AllScoresZero
                /\ pair_counts[NextAnchor][RestOfCandidates[k]] >= 2 =>
                       penalized_diff(NextAnchor, RestOfCandidates, k) = 0
          /\ (AllScoresZero /\ group_size >= 2) =>
                \A k \in 1..Len(RestOfCandidates) :
                    \E s \in choices(NextAnchor, RestOfCandidates, group_size - 1) :
                        RestOfCandidates[k] \in Range(s)]_vars

\* a group was formed whose anchor left behind a candidate it was paired
\* with twice, while a candidate with a positive score was available
C23_Witness ==
    /\ pc = "grouping" /\ Len(groups) = 1 /\ group_size = 2
    /\ LET person == groups[1][1]
           pairs  == Tail(groups[1]) \o people_with_background
       IN  /\ \E k \in 1..Len(pairs) :
                 /\ pair_counts[person][pairs[k]] = 2
                 /\ skill_diff(person, pairs[k]) > 0
                 /\ pairs[k] \in Range(people_with_background)
           /\ penalized_diff(person, pairs, 1) > 0

\* C24: the weight of every non-full table is well defined: the division
\* by the number of occupants never has a zero divisor, a table left empty
\* by the TA loop included.
C24_WeightNeverDividesByZero ==
    /\ err # "zero_division"
    /\ (pc = "queue" /\ qpos <= Len(Queue)) =>
          \A k \in 1..Len(open_tables) : ~divides_by_zero(open_tables[k])

\* the persons a person was paired with through add_pair
AddedThroughAddPair(self) == {m \in Names : pair_counts[self][m] > 0}

\* C25: reading a pairing count is a pure query: get_pair_count_for_person
\* and get_pair_count_for_people return the stored count (0 for a person
\* never paired with) and leave the set of known partners as it was, so
\* that get_pairs and get_pair_count_for_everyone_except list exactly the
\* persons added through add_pair.
C25_ReadsArePureQueries ==
    [][/\ last_call'.op \in {"get_pair_count_for_person", "get_pair_count_for_people"} =>
             pair_keys' = pair_keys
       /\ last_call'.op = "get_pair_count_for_person" =>
             ret'.value = pair_counts[last_call'.self][last_call'.others[1]]
       /\ last_call'.op = "get_pairs" =>
             ret'.value = AddedThroughAddPair(last_call'.self)
       /\ last_call'.op = "get_pair_count_for_everyone_except" =>
             DOMAIN ret'.value = AddedThroughAddPair(last_call'.self) \ last_call'.others]_vars

\* C26: a person marked excluded never appears in a group returned by
\* create_groups_based_on_background, also when the person has a value for
\* the requested skill.
C26_ExcludedNeverGrouped ==
    pc = "done" =>
        \A g \in DOMAIN grouping_plan : \A k \in DOMAIN grouping_plan[g] :
            ~exclude[grouping_plan[g][k]]

\* C27: with non-negative skills, any pairing history and a group size
\* between 1 and the number n of candidates for which the leftovers
\* (n mod size) do not outnumber the groups (n div size), the function
\* returns a grouping; for a group size of 1 or more it fails only on zero
\* candidates or on more leftovers than groups, the partner draw never
\* lacking candidates with a positive score.
C27_ValidSizeAlwaysReturns ==
    LET n == Cardinality(GroupCandidates)
    IN  /\ group_size >= 1 =>
              err \in {"none", "no_people_with_background", "more_leftovers_than_groups"}
        /\ (/\ 1 <= group_size /\ group_size <= n
            /\ n % group_size <= n \div group_size) => pc # "error"

\* the placement record and the tables' occupant lists say the same
PlacementAgrees ==
    /\ \A n \in DOMAIN people_table_placement : \A t \in DOMAIN people :
          people_table_placement[n] = t <=> n \in Range(people[t])
    /\ \A t \in DOMAIN people : \A k \in 1..Len(people[t]) :
          /\ people[t][k] \in DOMAIN people_table_placement
          /\ \A j \in 1..Len(people[t]) : j # k => people[t][j] # people[t][k]
    /\ \A t, u \in DOMAIN people : t # u => Range(people[t]) \cap Range(people[u]) = {}

SeatFailures == {"could_not_add", "table_full", "already_seated",
                 "could_not_add_to_any", "tried_all_tables"}

\* C28: throughout a run that starts with empty tables, a person is
\* recorded as placed at a table exactly when that table's occupant list
\* holds the person, nobody is in two lists or twice in one, and a failed
\* seat attempt changes neither the record nor any list.
C28_PlacementMatchesOccupancy ==
    [][/\ PlacementAgrees'
       /\ (err = "none" /\ err' \in SeatFailures) =>
             /\ people' = people
             /\ people_table_placement' = people_table_placement]_vars

C28_Witness ==
    /\ Returned /\ NumTables = 2
    /\ \A t \in DOMAIN people : Len(people[t]) = 2
    /\ \A n \in Names : /\ n \in DOMAIN people_table_placement
                        /\ people_table_placement[n] \in DOMAIN people

\* the failures of seating a queued person, and of the round-robin loop
QueueFailures == {"table_full", "already_seated", "could_not_add_to_any",
                  "min_of_empty", "could_not_seat_everyone", "tried_all_tables"}

\* C29: once the capacity check has passed, with tables that started empty
\* and unique names, processing the queue never meets a seat failure and,
\* when it completes, no active person is left unseated; the round-robin
\* loop then seats nobody and its 'tried all tables' failure cannot occur.
C29_QueueSeatsEveryone ==
    [][/\ err' \notin QueueFailures
       /\ pc' = "checks" =>
             \A n \in ActivePersons : \E t \in DOMAIN people : n \in Range(people'[t])
       /\ (pc = "queue" /\ qpos > Len(Queue)) => people' = people]_vars

====
